---- MODULE Spec2Model ----
(***************************************************************************)
(* Enterprise Scheduler (enterprise_scheduling_app_streamlit.py).          *)
(*                                                                         *)
(* The program is a Streamlit script: every user interaction of a browser  *)
(* session runs the script once, top to bottom, against one shared SQL     *)
(* database holding the tables users and events.  One action below is one  *)
(* script run of one browser session (users take turns in it by logging    *)
(* out and in).  The state is the two tables, the session's                *)
(* st.session_state.user, the view selected in the sidebar and the page    *)
(* the last run rendered.                                                  *)
(*                                                                         *)
(* Timestamps are minutes since 2024-01-01T00:00; dates are days since     *)
(* 2024-01-01 (day 0).                                                     *)
(***************************************************************************)
EXTENDS Integers, Sequences, FiniteSets, TLC

VARIABLES users, events, session, page

vars == <<users, events, session, page>>

-----------------------------------------------------------------------------
(* Bounds of the model *)

\* the Occurrences widget goes up to 365; the model draws 1..MaxCount
MaxCount == 2
\* a submit is taken only while the events table stays within MaxEvents rows
MaxEvents == 3

-----------------------------------------------------------------------------
(* Input domains: the values typed or selected in the widgets *)

Usernames == {"alice", "bob"}
Passwords == {"pw", "bad"}
Titles == {"standup"}
NotesTexts == {""}

Roles == {"User", "Admin"}

\* fillings of the Register tab: alice as either role, bob as User
RegisterInputs ==
    {[new_user |-> "alice", new_pass |-> "pw", role |-> r] : r \in Roles}
    \cup {[new_user |-> "bob", new_pass |-> "pw", role |-> "User"]}

Priorities == {"Low", "Medium", "High", "Critical"}
PriorityInputs == {p \in Priorities : p = "High"}
Recurrences == {"None", "Daily", "Weekly", "Monthly"}

\* fillings of the date, time and recurrence widgets of the Create Event
\* form: 09:00 to 10:00 on 2024-01-01 under each rule but Weekly and, for
\* Weekly, a start on 2024-01-02 with the end left on 2024-01-01 (an end
\* before the start)
CreateInputs ==
    {[sd |-> 0, stt |-> 9 * 60, ed |-> 0, ett |-> 10 * 60, recurrence |-> r] :
        r \in Recurrences \ {"Weekly"}}
    \cup {[sd |-> 1, stt |-> 9 * 60, ed |-> 0, ett |-> 10 * 60,
           recurrence |-> "Weekly"]}

\* st.session_state.user = None
None == [username |-> "<none>"]

-----------------------------------------------------------------------------
(* datetime, timedelta and the calendar *)

MinutesPerDay == 24 * 60

\* timedelta(days=d)
timedelta(d) == d * MinutesPerDay

\* datetime.combine(date, time)
combine(d, t) == d * MinutesPerDay + t

IsLeap(y) == (y % 4 = 0) /\ ((y % 100 # 0) \/ (y % 400 = 0))

DaysInMonth(y, m) ==
    IF m = 2 THEN (IF IsLeap(y) THEN 28 + 1 ELSE 28)
    ELSE IF m \in {4, 6, 9, 11} THEN 30 ELSE 30 + 1

RECURSIVE ymd(_, _, _)
\* the calendar date <<year, month, day>> that lies d days after y-m-01
ymd(y, m, d) ==
    IF d < DaysInMonth(y, m) THEN <<y, m, d + 1>>
    ELSE IF m = 12 THEN ymd(y + 1, 1, d - DaysInMonth(y, m))
    ELSE ymd(y, m + 1, d - DaysInMonth(y, m))

\* the calendar date of a day number (day 0 is 2024-01-01)
DateOf(day) == ymd(2024, 1, day)

\* datetime.isoformat(), as <<year, month, day, hour, minute>>
isoformat(ts) ==
    DateOf(ts \div MinutesPerDay)
        \o <<(ts % MinutesPerDay) \div 60, (ts % MinutesPerDay) % 60>>

-----------------------------------------------------------------------------
(* uuid *)

\* a generator that returns one value for every call of a run
uuid4_once_per_run(n, k) == n + 1

\* str(uuid.uuid4()): the k-th call (k = 0, 1, ...) of a run that starts
\* when the largest value in use is n.  uuid4 never returns a value again;
\* the values are numbered in the order they are drawn.
uuid4(n, k) == n + k + 1

-----------------------------------------------------------------------------------------------------------------------------------------------------
(* Auth utilities *)

Salts == {"salt"}

\* hash_password: bcrypt.hashpw(password, bcrypt.gensalt())
hash_password(password, salt) == <<"bcrypt", salt, password>>

\* verify_password: bcrypt.checkpw(password, hashed)
verify_password(password, hashed) == hash_password(password, hashed[2]) = hashed

-----------------------------------------------------------------------------
(* The database: tables are sets of rows; the constraints of CREATE TABLE *)

ids(table) == {r.id : r \in table}

\* the users table without UNIQUE on username
UsersPrimaryKeyOnly(table, row) == row.id \in ids(table)

\* users: id TEXT PRIMARY KEY, username TEXT UNIQUE NOT NULL
UsersConstraintViolated(table, row) ==
    \/ row.id \in ids(table)
    \/ row.username \in {u.username : u \in table}

\* events: id TEXT PRIMARY KEY
EventsConstraintViolated(table, row) == row.id \in ids(table)

\* the same statement when a row at the same owner and start is replaced
InsertOrReplace(table, row) ==
    {r \in table : r.owner # row.owner \/ r.start_ts # row.start_ts} \cup {row}

\* INSERT INTO events VALUES (...) of one row that passed the constraints
InsertRow(table, row) == table \cup {row}

RECURSIVE ExecuteAll(_, _, _, _)
\* for r in rows: conn.execute(INSERT ...), from the k-th row on.  The
\* statement number faultAt fails with a storage fault (0: none does;
\* Len(rows) + 1: the commit does); a constraint violation fails too.
\* The result is the connection's view of the table and whether the block
\* raised.
ExecuteAll(table, rows, k, faultAt) ==
    IF k > Len(rows)
    THEN [raised |-> (faultAt = k), table |-> table]
    ELSE IF faultAt = k \/ EventsConstraintViolated(table, rows[k])
    THEN [raised |-> TRUE, table |-> table]
    ELSE ExecuteAll(InsertRow(table, rows[k]), rows, k + 1, faultAt)

\* a connection in autocommit: what was executed stays
Autocommit(before, work) == work.table

\* with engine.begin() as conn: commit when the block ends, roll back when
\* it raises
Transaction(before, work) == IF work.raised THEN before ELSE work.table

\* the largest identifier a table holds (0 for none).  The values a run
\* draws are numbered from there: values drawn by a run whose transaction
\* failed are stored nowhere and play no further part.
Largest(stored) == CHOOSE m \in stored \cup {0} : \A x \in stored \cup {0} : x <= m

nextUserId == Largest(ids(users))

nextId == Largest(ids(events) \cup {r.series_id : r \in events})

-----------------------------------------------------------------------------
(* Recurrence expansion (the Create Event submit handler) *)

\* range(count + 1)
range_inclusive(count) == 0 .. count

\* range(count)
range(count) == 0 .. (count - 1)

RECURSIVE MonthsFromJanuary(_)
\* the days of the first i months of 2024
MonthsFromJanuary(i) ==
    IF i = 0 THEN 0 ELSE MonthsFromJanuary(i - 1) + DaysInMonth(2024, i)

\* the timedelta of occurrence i with Monthly as calendar months counted
\* from January
delta_calendar_months(recurrence, i) ==
    IF recurrence = "Daily" THEN timedelta(i)
    ELSE IF recurrence = "Weekly" THEN timedelta(7 * i)
    ELSE IF recurrence = "Monthly" THEN timedelta(MonthsFromJanuary(i))
    ELSE timedelta(0)

\* the timedelta of occurrence i
delta(recurrence, i) ==
    IF recurrence = "Daily" THEN timedelta(i)
    ELSE IF recurrence = "Weekly" THEN timedelta(7 * i)
    ELSE IF recurrence = "Monthly" THEN timedelta(30 * i)
    ELSE timedelta(0)

\* the owner stamped on a row: st.session_state.user["username"]
Owner == session.user.username

\* a series identifier drawn inside the loop: the id of the row itself
SeriesIdPerRow(n, i) == uuid4(n, i + 1)

\* the series identifier of a request: one uuid4 call before the loop,
\* the same for every occurrence i
SeriesId(n, i) == uuid4(n, 0)

\* the dict with the values of title and owner exchanged
BuildRowOwnerFromTitle(n, i, title, owner, start_dt, end_dt, priority, recurrence, notes) ==
    [id |-> uuid4(n, i + 1),
     series_id |-> SeriesId(n, i),
     title |-> owner,
     owner |-> title,
     start_ts |-> start_dt + delta(recurrence, i),
     end_ts |-> end_dt + delta(recurrence, i),
     priority |-> priority,
     status |-> "Planned",
     recurrence |-> recurrence,
     notes |-> notes]

\* the dict appended for occurrence i (its id is the (i+1)-th uuid4 call
\* after the one of the series id)
BuildRow(n, i, title, owner, start_dt, end_dt, priority, recurrence, notes) ==
    [id |-> uuid4(n, i + 1),
     series_id |-> SeriesId(n, i),
     title |-> title,
     owner |-> owner,
     start_ts |-> start_dt + delta(recurrence, i),
     end_ts |-> end_dt + delta(recurrence, i),
     priority |-> priority,
     status |-> "Planned",
     recurrence |-> recurrence,
     notes |-> notes]

\* the j-th smallest element of a set of integers
Nth(S, j) == CHOOSE x \in S : Cardinality({y \in S : y < x}) = j - 1

\* the loop when rule None ignores the count and emits one row
BuildRowsOnceForNone(n, count, title, owner, start_dt, end_dt, priority, recurrence, notes) ==
    [j \in 1 .. (IF recurrence = "None" THEN 1 ELSE count) |->
        BuildRow(n, j - 1, title, owner, start_dt, end_dt, priority,
                 recurrence, notes)]

\* rows = []; for i in range(count): rows.append({...})
BuildRows(n, count, title, owner, start_dt, end_dt, priority, recurrence, notes) ==
    [j \in 1 .. Cardinality(range(count)) |->
        BuildRow(n, Nth(range(count), j), title, owner, start_dt, end_dt,
                 priority, recurrence, notes)]

-----------------------------------------------------------------------------
(* Queries *)

RECURSIVE OrderBy(_)
\* every sequence holding each row of S once, in non-decreasing start_ts
\* (SQL leaves the order of rows with equal start_ts open)
OrderBy(S) ==
    IF S = {} THEN {<<>>}
    ELSE UNION { { <<r>> \o t : t \in OrderBy(S \ {r}) } :
                 r \in {x \in S : \A y \in S : x.start_ts <= y.start_ts} }

\* SELECT * FROM events ORDER BY start_ts
SelectAllOrdered(table, o) == OrderBy(table)

\* SELECT * FROM events WHERE owner=:o ORDER BY start_ts
SelectByOwner(table, o) == OrderBy({r \in table : r.owner = o})

\* one entry of the calendar component
CalendarEntry(r) ==
    [title |-> <<r.title, r.priority>>,
     start |-> isoformat(r.start_ts),
     end |-> isoformat(r.end_ts)]

\* the list handed to calendar(), as a bag (the row order is open)
CalendarEntries(table) ==
    [e \in {CalendarEntry(r) : r \in table} |->
        Cardinality({r \in table : CalendarEntry(r) = e})]

-----------------------------------------------------------------------------
(* Session state and pages *)

\* the session after a rerun that renders the sidebar for the first time:
\* the Navigation radio shows its first option
FreshSession(user) == [user |-> user, view |-> "Create Event"]

\* views, plus Admin Dashboard for an Admin
Views(role) ==
    {"Create Event", "My Events", "Calendar"}
        \cup (IF role = "Admin" THEN {"Admin Dashboard"} ELSE {})

\* what one script run rendered: the page, its message, and the data of
\* its dataframe, calendar or metrics (n is the number in the success
\* message of Create Event)
Page(kind, msg) ==
    [kind |-> kind, msg |-> msg, n |-> 0, df |-> <<>>, table |-> {},
     entries |-> <<>>, total_events |-> 0, total_users |-> 0]

\* line 89: the script goes past st.stop() only with a logged-in user
LoggedIn == session.user # None

-----------------------------------------------------------------------------
(* Initial state: tables just created, nobody logged in *)

Init ==
    /\ users = {}
    /\ events = {}
    /\ session = FreshSession(None)
    /\ page = Page("Login", "")

-----------------------------------------------------------------------------
(* Actions: one script run each.  A store that fails is modelled where     *)
(* the script writes (Register, Create Event); in a run that only reads    *)
(* it shows the exception and changes nothing.                             *)

\* the Login button
Login ==
    /\ ~LoggedIn
    /\ \E username \in Usernames, password \in Passwords :
        LET found == {u \in users : u.username = username} IN
        IF \E row \in found : verify_password(password, row.password_hash)
        THEN LET row == CHOOSE r \in found : TRUE IN
             /\ session' = FreshSession([id |-> row.id,
                                         username |-> row.username,
                                         role |-> row.role])
             /\ page' = Page("Create Event", "")
        ELSE /\ page' = Page("Login", "Invalid credentials")
             /\ UNCHANGED session
    /\ UNCHANGED <<users, events>>

\* the Register button, with the values of its widgets; fault: the store
\* fails
RegisterUser(new_user, new_pass, role, salt, fault) ==
    /\ ~LoggedIn
    /\ LET row == [id |-> uuid4(nextUserId, 0), username |-> new_user,
                   password_hash |-> hash_password(new_pass, salt),
                   role |-> role] IN
        IF fault \/ UsersConstraintViolated(users, row)
        THEN /\ page' = Page("Login", "Username already exists")
             /\ UNCHANGED users
        ELSE /\ users' = users \cup {row}
             /\ page' = Page("Login", "User registered. You can now log in.")
    /\ UNCHANGED <<events, session>>

Register ==
    \E in \in RegisterInputs, salt \in Salts, fault \in BOOLEAN :
        RegisterUser(in.new_user, in.new_pass, in.role, salt, fault)

\* the Logout button of the sidebar
Logout ==
    /\ LoggedIn
    /\ session' = FreshSession(None)
    /\ page' = Page("Login", "")
    /\ UNCHANGED <<users, events>>

\* a run that shows the Create Event form without a submit
ShowCreateEvent ==
    /\ LoggedIn
    /\ session' = [session EXCEPT !.view = "Create Event"]
    /\ page' = Page("Create Event", "")
    /\ UNCHANGED <<users, events>>

\* the Create button of the form, with the values of its widgets;
\* faultAt: the statement of the transaction at which the store fails.
\* Occurrences is disabled while the form was rendered with recurrence
\* "None" and then keeps its value, which is 1 or the count of an earlier
\* submit under another rule: every count can arrive with every rule.
SubmitForm(title, in, priority, notes, count, faultAt) ==
    /\ LoggedIn
    /\ session.view = "Create Event"
    /\ Cardinality(events) + count <= MaxEvents
    /\ LET start_dt == combine(in.sd, in.stt)
           end_dt == combine(in.ed, in.ett)
           rows == BuildRows(nextId, count, title, Owner, start_dt, end_dt,
                             priority, in.recurrence, notes)
           work == ExecuteAll(events, rows, 1, faultAt)
       IN
       /\ faultAt \in 0 .. (Len(rows) + 1)
       /\ events' = Transaction(events, work)
       /\ page' = IF work.raised THEN Page("Create Event", "exception")
                  ELSE [Page("Create Event", "event(s) created")
                        EXCEPT !.n = Len(rows)]
    /\ UNCHANGED <<users, session>>

Submit ==
    \E title \in Titles, in \in CreateInputs, priority \in PriorityInputs,
       notes \in NotesTexts, count \in 1 .. MaxCount,
       faultAt \in 0 .. (MaxCount + 1) :
        SubmitForm(title, in, priority, notes, count, faultAt)

\* the My Events view
MyEvents ==
    /\ LoggedIn
    /\ session' = [session EXCEPT !.view = "My Events"]
    /\ \E df \in SelectByOwner(events, Owner) :
        page' = [Page("My Events", "") EXCEPT !.df = df]
    /\ UNCHANGED <<users, events>>

\* the Calendar view; CALENDAR_ENABLED is set by the import at the top of
\* each run
Calendar ==
    /\ LoggedIn
    /\ session' = [session EXCEPT !.view = "Calendar"]
    /\ \E CALENDAR_ENABLED \in BOOLEAN :
        IF events = {}
        THEN page' = Page("Calendar", "No events scheduled")
        ELSE IF ~CALENDAR_ENABLED
        THEN page' = [Page("Calendar",
                           "Calendar component unavailable. Showing list view.")
                      EXCEPT !.table = events]
        ELSE page' = [Page("Calendar", "calendar")
                      EXCEPT !.entries = CalendarEntries(events)]
    /\ UNCHANGED <<users, events>>

\* the Admin Dashboard view
AdminDashboard ==
    /\ LoggedIn
    /\ "Admin Dashboard" \in Views(session.user.role)
    /\ session' = [session EXCEPT !.view = "Admin Dashboard"]
    /\ page' = [Page("Admin Dashboard", "")
                EXCEPT !.total_events = Cardinality(events),
                       !.total_users = Cardinality(users),
                       !.table = events]
    /\ UNCHANGED <<users, events>>

Next ==
    \/ Login
    \/ Register
    \/ Logout
    \/ ShowCreateEvent
    \/ Submit
    \/ MyEvents
    \/ Calendar
    \/ AdminDashboard

Spec == Init /\ [][Next]_vars

-----------------------------------------------------------------------------
(* Properties *)

Range(f) == {f[j] : j \in DOMAIN f}

\* the step is a run of the Create button
IsSubmit == page'.kind = "Create Event" /\ page'.msg # ""

\* the step is a run of the Create button whose transaction committed
IsCommit == page'.kind = "Create Event" /\ page'.msg = "event(s) created"

\* days between two occurrences under a rule, as the specification has it
K(rule) ==
    CASE rule = "Daily" -> 1
      [] rule = "Weekly" -> 7
      [] rule = "Monthly" -> 30
      [] OTHER -> 0

\* C1: one submit with occurrence count n builds exactly n rows, and when
\* its transaction commits the events table grows by exactly n rows, the
\* number shown in the success message.
C1_OneRowPerOccurrence ==
    [][IsSubmit =>
        \A title \in Titles, in \in CreateInputs, priority \in PriorityInputs,
           notes \in NotesTexts, count \in 1 .. MaxCount :
            /\ Len(BuildRows(nextId, count, title, Owner,
                             combine(in.sd, in.stt), combine(in.ed, in.ett),
                             priority, in.recurrence, notes)) = count
            /\ SubmitForm(title, in, priority, notes, count, 0) =>
                /\ IsCommit
                /\ page'.n = count
                /\ Cardinality(events' \ events) = count
                /\ Cardinality(events') = Cardinality(events) + count
      ]_vars

\* a commit of a batch of two or more rows into the empty table
C1_Witness ==
    /\ page.kind = "Create Event"
    /\ page.msg = "event(s) created"
    /\ page.n >= 2
    /\ Cardinality(events) = page.n

\* C2: the row of occurrence i (rows in ascending i) has
\* start = start_datetime + k*i days and end = end_datetime + k*i days with
\* k = 1 (Daily), 7 (Weekly), 30 (Monthly), so it keeps the input duration,
\* also when the end is before the start; Monthly from 2024-01-01T09:00
\* has its second start on 2024-01-31T09:00.  The committed rows are the
\* rows built.
C2_FlatDayOffsets ==
    [][IsSubmit =>
        \A title \in Titles, in \in CreateInputs, priority \in PriorityInputs,
           notes \in NotesTexts, count \in 1 .. MaxCount :
            LET start_dt == combine(in.sd, in.stt)
                end_dt == combine(in.ed, in.ett)
                rows == BuildRows(nextId, count, title, Owner, start_dt,
                                  end_dt, priority, in.recurrence, notes)
            IN
            /\ \A j \in 1 .. count :
                /\ j \in DOMAIN rows
                /\ rows[j].start_ts =
                       start_dt + K(in.recurrence) * (j - 1) * MinutesPerDay
                /\ rows[j].end_ts =
                       end_dt + K(in.recurrence) * (j - 1) * MinutesPerDay
                /\ rows[j].end_ts - rows[j].start_ts = end_dt - start_dt
            /\ (in.recurrence = "Monthly" /\ count >= 2
                    /\ isoformat(start_dt) = <<2024, 1, 1, 9, 0>>)
                => isoformat(rows[2].start_ts) = <<2024, 1, 31, 9, 0>>
            /\ (in.recurrence = "Weekly" /\ count >= 2
                    /\ isoformat(start_dt) = <<2024, 1, 2, 9, 0>>)
                => isoformat(rows[2].start_ts) = <<2024, 1, 9, 9, 0>>
            /\ SubmitForm(title, in, priority, notes, count, 0)
                => events' \ events = Range(rows)
      ]_vars

\* a stored second Monthly occurrence on 2024-01-31 beside a row that ends
\* before it starts
C2_Witness ==
    /\ \E r \in events :
        /\ r.recurrence = "Monthly"
        /\ isoformat(r.start_ts) = <<2024, 1, 31, 9, 0>>
        /\ isoformat(r.end_ts) = <<2024, 1, 31, 10, 0>>
    /\ \E r \in events : r.end_ts < r.start_ts

\* C3: under rule None every row has the start and end of the input, and
\* the count is not ignored: count n gives n rows that agree in every
\* field but id.
C3_NoneRepeatsTheEvent ==
    [][IsSubmit =>
        \A title \in Titles, in \in CreateInputs, priority \in PriorityInputs,
           notes \in NotesTexts, count \in 1 .. MaxCount :
            in.recurrence = "None" =>
                LET start_dt == combine(in.sd, in.stt)
                    end_dt == combine(in.ed, in.ett)
                    rows == BuildRows(nextId, count, title, Owner, start_dt,
                                      end_dt, priority, in.recurrence, notes)
                IN
                /\ Len(rows) = count
                /\ \A j \in DOMAIN rows :
                    /\ rows[j].start_ts = start_dt
                    /\ rows[j].end_ts = end_dt
                /\ \A j, k \in DOMAIN rows :
                    /\ [rows[j] EXCEPT !.id = rows[k].id] = rows[k]
                    /\ j # k => rows[j].id # rows[k].id
                /\ SubmitForm(title, in, priority, notes, count, 0) =>
                    /\ events' \ events = Range(rows)
                    /\ Cardinality(events' \ events) = count
      ]_vars

\* two stored rows of one None request: equal but for the id
C3_Witness ==
    \E r1, r2 \in events :
        /\ r1.recurrence = "None"
        /\ r1.id # r2.id
        /\ [r1 EXCEPT !.id = r2.id] = r2

\* C4: the rows one request inserts carry one series_id and the rule of
\* the request as recurrence, and a series_id no stored row carries; so
\* stored rows of one series_id have one recurrence.
C4_SeriesPerRequest ==
    [][IsCommit =>
        \A title \in Titles, in \in CreateInputs, priority \in PriorityInputs,
           notes \in NotesTexts, count \in 1 .. MaxCount :
            SubmitForm(title, in, priority, notes, count, 0) =>
                /\ Cardinality(events' \ events) = count
                /\ \A r1, r2 \in events' \ events : r1.series_id = r2.series_id
                /\ \A r \in events' \ events : r.recurrence = in.recurrence
                /\ \A r \in events' \ events, o \in events :
                        r.series_id # o.series_id
                /\ \A r1, r2 \in events' :
                        r1.series_id = r2.series_id
                            => r1.recurrence = r2.recurrence
      ]_vars

\* a stored batch of two rows beside a row of another request
C4_Witness ==
    \E r1, r2, r3 \in events :
        /\ r1.id # r2.id
        /\ r1.series_id = r2.series_id
        /\ r3.series_id # r1.series_id
        /\ r3.recurrence # r1.recurrence

\* C5: no two stored rows have the same id; a row's id differs from its
\* series_id; and the ids the next request draws are distinct from one
\* another, from the request's series_id and from every stored id.
C5_UniqueIds ==
    /\ \A r1, r2 \in events : r1.id = r2.id => r1 = r2
    /\ \A r \in events : r.id # r.series_id
    /\ \A title \in Titles, in \in CreateInputs, priority \in PriorityInputs,
          notes \in NotesTexts :
        LET rows == BuildRows(nextId, MaxCount, title, Owner,
                              combine(in.sd, in.stt), combine(in.ed, in.ett),
                              priority, in.recurrence, notes)
        IN \A j \in DOMAIN rows :
            /\ rows[j].id \notin ids(events)
            /\ rows[j].id # rows[j].series_id
            /\ \A k \in DOMAIN rows : j # k => rows[j].id # rows[k].id

\* three stored rows, of both users
C5_Witness ==
    /\ Cardinality(events) >= 3
    /\ Cardinality(ids(events)) = Cardinality(events)
    /\ \E r1, r2 \in events : r1.owner # r2.owner

\* C6: a submit whose transaction meets a storage fault leaves the events
\* table as it was and shows the exception, not the success message; a
\* submit without fault adds all its rows.  No state holds part of a batch.
C6_AllOrNothing ==
    [][IsSubmit =>
        \A title \in Titles, in \in CreateInputs, priority \in PriorityInputs,
           notes \in NotesTexts, count \in 1 .. MaxCount,
           faultAt \in 0 .. (MaxCount + 1) :
            (faultAt <= count + 1
                /\ SubmitForm(title, in, priority, notes, count, faultAt)) =>
                LET rows == BuildRows(nextId, count, title, Owner,
                                      combine(in.sd, in.stt),
                                      combine(in.ed, in.ett),
                                      priority, in.recurrence, notes)
                IN
                /\ faultAt # 0 =>
                    /\ events' = events
                    /\ page'.msg = "exception"
                /\ faultAt = 0 =>
                    /\ events' = events \cup Range(rows)
                    /\ page'.msg = "event(s) created"
                /\ events' \in {events, events \cup Range(rows)}
      ]_vars

\* a failed submit over a table that holds rows
C6_Witness ==
    /\ page.kind = "Create Event"
    /\ page.msg = "exception"
    /\ events # {}

\* C7: My Events shows exactly the rows of the logged-in owner, each once,
\* in non-decreasing start; so does the query for every owner.
C7_ListByOwner ==
    /\ \A o \in Usernames : \A df \in SelectByOwner(events, o) :
        /\ Range(df) = {r \in events : r.owner = o}
        /\ Len(df) = Cardinality({r \in events : r.owner = o})
        /\ \A j, k \in DOMAIN df : j < k => df[j].start_ts <= df[k].start_ts
    /\ (page.kind = "My Events" /\ page.msg = "") =>
        /\ Range(page.df) = {r \in events : r.owner = Owner}
        /\ Len(page.df) = Cardinality({r \in events : r.owner = Owner})
        /\ \A j, k \in DOMAIN page.df :
                j < k => page.df[j].start_ts <= page.df[k].start_ts

\* My Events with two rows of different start, inserted latest first,
\* while the table holds a row of another owner
C7_Witness ==
    /\ page.kind = "My Events"
    /\ Len(page.df) = 2
    /\ page.df[1].start_ts < page.df[2].start_ts
    /\ page.df[1].id > page.df[2].id
    /\ \E r \in events : r.owner # Owner

\* C8: rows are never changed or removed, only a committing submit adds
\* rows, and two reads in a row of the same view show the same rows.
C8_AppendOnly ==
    [][/\ events \subseteq events'
       /\ ~IsCommit => events' = events
       /\ (page.kind = page'.kind /\ page.msg = page'.msg
              /\ page.kind \in {"My Events", "Calendar", "Admin Dashboard"}) =>
            /\ Range(page'.df) = Range(page.df)
            /\ page'.table = page.table
            /\ page'.entries = page.entries
            /\ page'.total_events = page.total_events
      ]_vars

\* the Admin Dashboard over a table with rows
C8_Witness ==
    /\ page.kind = "Admin Dashboard"
    /\ page.total_events >= 2
    /\ page.table = events

\* C9: no two users have the same username; registering a username that
\* exists shows the error and leaves the users table as it was; a
\* successful registration adds one row.
C9_UniqueUsernames ==
    /\ [](\A u1, u2 \in users : u1.username = u2.username => u1 = u2)
    /\ [][page'.kind = "Login" =>
            \A in \in RegisterInputs, salt \in Salts, fault \in BOOLEAN :
                RegisterUser(in.new_user, in.new_pass, in.role, salt, fault) =>
                    /\ (\E u \in users : u.username = in.new_user) =>
                        /\ users' = users
                        /\ page'.msg = "Username already exists"
                    /\ page'.msg = "User registered. You can now log in." =>
                        /\ Cardinality(users') = Cardinality(users) + 1
                        /\ \E u \in users' \ users : u.username = in.new_user
         ]_vars

\* the error page while both usernames are registered
C9_Witness ==
    /\ page.msg = "Username already exists"
    /\ {u.username : u \in users} = Usernames

\* C10: rows are inserted only by a session with a logged-in user, and
\* every inserted row has that user's username as owner and status Planned.
C10_OwnerIsTheLoggedInUser ==
    [][events' # events =>
        /\ session.user # None
        /\ session.user \in {[id |-> u.id, username |-> u.username,
                              role |-> u.role] : u \in users}
        /\ \A r \in events' \ events :
            /\ r.owner = session.user.username
            /\ r.status = "Planned"
      ]_vars

\* rows of two owners stored, after a logout
C10_Witness ==
    /\ session.user = None
    /\ \E r1, r2 \in events : r1.owner = "alice" /\ r2.owner = "bob"

====
